---------------------------- MODULE Spec2Model ----------------------------
(***************************************************************************)
(* A model of the Upbit API service layer (upbitApi.ts) and of the         *)
(* CoinsSection component (coin grid + historical ROI modal).              *)
(*                                                                         *)
(* upbitApi.ts: every exported async function is modelled as a call record *)
(* that moves from one await to the next.  The HTTP transport (axios), the *)
(* uuid generator and the JWT signer (jose) are the environment: they      *)
(* answer nondeterministically.                                            *)
(***************************************************************************)
EXTENDS Integers, Sequences, FiniteSets, TLC

VARIABLES
    env,            \* import.meta.env, read once at module load (lines 18-23)
    calls,          \* the invocations of the exported async functions, in call order
    issuedNonces,   \* the values uuidv4() has returned so far (generator state)
    candles,        \* argument of the chart conversion
    chart,          \* value returned by the chart conversion
    chartOp,        \* which conversion produced chart
    selectedCoin,           \* CoinsSection state
    selectedHistoricalData, \* CoinsSection state
    isModalOpen,            \* CoinsSection state
    timers                  \* pending setTimeout callbacks: remaining ms, in scheduling order

apiVars   == <<env, calls, issuedNonces>>
chartVars == <<candles, chart, chartOp>>
uiVars    == <<selectedCoin, selectedHistoricalData, isModalOpen, timers>>
vars      == <<env, calls, issuedNonces, candles, chart, chartOp,
               selectedCoin, selectedHistoricalData, isModalOpen, timers>>

-----------------------------------------------------------------------------
(* Bounds of the model *)

MaxCalls == 2

MaxArgCalls == 1

MaxMarkets == 2

MaxCandles == 2

MaxTimers == 3

TickMs == 100

-----------------------------------------------------------------------------
(* Values *)

Undefined == "undefined"

Null == "null"

\* JavaScript falsiness of an environment string: undefined or the empty string.
Falsy(v) == v \in {Undefined, ""}

\* Strings that the code takes apart or puts together are sequences of characters.
Comma == <<",">>

Markets == { <<"B", "T", "C">>, <<"X", "R">> }

MarketLists == UNION { [1..n -> Markets] : n \in 0..MaxMarkets }

\* An optional argument is <<>> when omitted and <<v>> when given.
UnitArgs == { <<>>, <<3>> }

CountArgs == { <<>>, <<10>> }

ConvertingPriceUnitArgs == { <<>>, <<"KRW">> }

OrDefault(arg, d) == IF arg = <<>> THEN d ELSE arg[1]

OrUndefined(arg) == IF arg = <<>> THEN Undefined ELSE arg[1]

DefaultUnit == 1

DefaultCount == 200

\* Response bodies and transport failures the environment may produce.
ResponseData == { "data1", "data2" }

TransportErrors ==
    { [name |-> "AxiosError", message |-> "Network Error"],
      [name |-> "AxiosError", message |-> "Request failed with status code 429"] }

SignError == [name |-> "JOSEError", message |-> "sign failed"]

Nonces == 1..MaxCalls

-----------------------------------------------------------------------------
(* Module-level constants of upbitApi.ts *)

API_BASE_URL == "https://api.upbit.com"

PROXY_BASE_URL == "/api/upbit"

ACCESS_KEY == env.ACCESS_KEY

SECRET_KEY == env.SECRET_KEY

USE_PROXY == env.DEV

PublicBaseURL == IF USE_PROXY THEN PROXY_BASE_URL ELSE API_BASE_URL

PublicHeaders == [Accept |-> "application/json"]

\* publicClient.get(url, {params}): the request axios sends.
PublicGet(url, params) ==
    [method |-> "GET", url |-> PublicBaseURL \o url, params |-> params,
     headers |-> PublicHeaders]

NoParams == [none |-> Undefined]

-----------------------------------------------------------------------------
(* Errors thrown by the code itself *)

JwtKeyError == [name |-> "Error", message |-> "UPBIT_SECRET_KEY is not configured"]

KeysError == [name |-> "Error", message |-> "API keys are not configured, check .env"]

AccountsError == [name |-> "Error", message |-> "failed to load accounts, check API keys"]

-----------------------------------------------------------------------------
(* A call of an exported async function, and its promise as the caller sees it *)

NoError == [name |-> "none", message |-> ""]

NoData == "none"

Pending == [kind |-> "pending", data |-> NoData, error |-> NoError]

Resolved(v) == [kind |-> "ok", data |-> v, error |-> NoError]

Rejected(e) == [kind |-> "error", data |-> NoData, error |-> e]

NoPayload == [access_key |-> Undefined, nonce |-> 0]

\* A call that has just been entered: nothing sent, nothing awaited yet.
\*   requests : the HTTP requests the call has handed to axios, in order
\*   response : what the transport answered to the last of them
\*   awaited  : the settled state of the promise the call awaits
\*   caught   : the error its catch clause received, if any
\*   payload  : the JWT claims it built, if any
NewCall(op, args) ==
    [op |-> op, args |-> args, pc |-> "entered", requests |-> <<>>,
     response |-> Pending, awaited |-> Pending, caught |-> NoError,
     payload |-> NoPayload, outcome |-> Pending]

\* The call hands a request to axios and awaits the response.
AwaitGet(call, req) ==
    [call EXCEPT !.pc = "awaitGet", !.requests = Append(@, req)]

Return(call, v) == [call EXCEPT !.pc = "done", !.outcome = Resolved(v)]

Throw(call, e) == [call EXCEPT !.pc = "done", !.outcome = Rejected(e)]

-----------------------------------------------------------------------------
(* Quotation API (public) *)

\* A getMarkets that checks the keys like a private operation.
getMarketsChecked ==
    IF Falsy(ACCESS_KEY) \/ Falsy(SECRET_KEY)
    THEN Throw(NewCall("getMarkets", [none |-> Undefined]), KeysError)
    ELSE AwaitGet(NewCall("getMarkets", [none |-> Undefined]),
                  PublicGet("/v1/market/all", NoParams))

\* getMarkets, lines 76-79
getMarkets ==
    AwaitGet(NewCall("getMarkets", [none |-> Undefined]),
             PublicGet("/v1/market/all", NoParams))

\* A getMarkets that answers from an earlier call's result.
getMarketsResumeCached(call, settled) ==
    LET earlier == { i \in 1..Len(calls) :
                        /\ calls[i].op = "getMarkets"
                        /\ calls[i].pc = "done"
                        /\ calls[i].outcome.kind = "ok" }
    IN  IF earlier # {}
        THEN Return(call, calls[CHOOSE i \in earlier : TRUE].outcome.data)
        ELSE IF settled.kind = "ok" THEN Return(call, settled.data)
        ELSE Throw(call, settled.error)

getMarketsResume(call, settled) ==
    IF settled.kind = "ok" THEN Return(call, settled.data)
    ELSE Throw(call, settled.error)

\* getMinuteCandles, lines 87-99
getMinuteCandles(market, unitArg, countArg) ==
    LET unit  == OrDefault(unitArg, DefaultUnit)
        count == OrDefault(countArg, DefaultCount)
    IN  AwaitGet(NewCall("getMinuteCandles",
                         [market |-> market, unit |-> unitArg, count |-> countArg]),
                 PublicGet("/v1/candles/minutes/" \o ToString(unit),
                           [market |-> market, count |-> count]))

\* A getMinuteCandles that sends the request once more after a failure.
getMinuteCandlesResumeRetry(call, settled) ==
    IF settled.kind = "ok" THEN Return(call, settled.data)
    ELSE IF Len(call.requests) < 2 THEN AwaitGet(call, call.requests[1])
    ELSE Throw(call, settled.error)

getMinuteCandlesResume(call, settled) ==
    IF settled.kind = "ok" THEN Return(call, settled.data)
    ELSE Throw(call, settled.error)

\* getDayCandles, lines 107-120
getDayCandles(market, countArg, convertingPriceUnitArg) ==
    LET count == OrDefault(countArg, DefaultCount)
    IN  AwaitGet(NewCall("getDayCandles",
                         [market |-> market, count |-> countArg,
                          convertingPriceUnit |-> convertingPriceUnitArg]),
                 PublicGet("/v1/candles/days",
                           [market |-> market, count |-> count,
                            convertingPriceUnit |-> OrUndefined(convertingPriceUnitArg)]))

getDayCandlesResume(call, settled) ==
    IF settled.kind = "ok" THEN Return(call, settled.data)
    ELSE Throw(call, settled.error)

\* A join that puts the separator before every element.
RECURSIVE JoinPrefixed(_, _)
JoinPrefixed(list, sep) ==
    IF list = <<>> THEN <<>>
    ELSE sep \o list[1] \o JoinPrefixed(Tail(list), sep)

\* Array.prototype.join: the elements separated by sep, "" for the empty array.
RECURSIVE Join(_, _)
Join(list, sep) ==
    IF list = <<>> THEN <<>>
    ELSE IF Len(list) = 1 THEN list[1]
    ELSE list[1] \o sep \o Join(Tail(list), sep)

\* getTicker, lines 126-139
getTicker(markets) ==
    LET marketsParam == Join(markets, Comma)
    IN  AwaitGet(NewCall("getTicker", [markets |-> markets]),
                 PublicGet("/v1/ticker", [markets |-> marketsParam]))

\* A catch clause that wraps what it caught in an error of its own.
getTickerCatchWrapped(call, error) ==
    Throw([call EXCEPT !.caught = error],
          [name |-> "Error", message |-> "failed to load ticker"])

\* catch (error) { throw error; }
getTickerCatch(call, error) == Throw([call EXCEPT !.caught = error], error)

getTickerResume(call, settled) ==
    IF settled.kind = "ok" THEN Return(call, settled.data)
    ELSE getTickerCatch(call, settled.error)


(* Exchange API (private) *)

\* A nonce generated once and kept for later calls.
uuidv4Cached == IF issuedNonces = {} THEN Nonces ELSE issuedNonces

\* uuidv4(): a value the generator has not returned before.
uuidv4 == Nonces \ issuedNonces

\* new jose.SignJWT(payload).setProtectedHeader({alg: 'HS256'}).sign(secret):
\* the compact token is determined by the header, the claims and the key.
SignJWT(payload, secret) == [alg |-> "HS256", payload |-> payload, key |-> secret]

\* generateJWT, lines 37-48, up to its await: the promise it returns is
\* rejected at once, or settles when jose has signed.
generateJWT(payload) ==
    IF Falsy(SECRET_KEY) THEN Rejected(JwtKeyError)
    ELSE Pending

\* A check that forgets the access key.
KeysMissingSecretOnly == Falsy(SECRET_KEY)

\* getAuthHeaders, lines 53-69: the check of the two keys.
KeysMissing == Falsy(ACCESS_KEY) \/ Falsy(SECRET_KEY)

\* getAuthHeaders, lines 58-61
AuthPayload(nonce) == [access_key |-> ACCESS_KEY, nonce |-> nonce]

\* getAuthHeaders, lines 65-68
AuthHeaders(token) ==
    [Authorization |-> <<"Bearer ", token>>, Accept |-> "application/json"]

\* getAccounts, lines 146-161, up to "await getAuthHeaders()".  The state of
\* the awaited promise is rejected when getAuthHeaders (or generateJWT) threw
\* on entry, pending while jose signs.
getAccounts(nonce) ==
    LET call == NewCall("getAccounts", [none |-> Undefined])
    IN  IF KeysMissing
        THEN [call EXCEPT !.pc = "awaitHeaders", !.awaited = Rejected(KeysError)]
        ELSE [call EXCEPT !.pc = "awaitHeaders",
                          !.payload = AuthPayload(nonce),
                          !.awaited = generateJWT(AuthPayload(nonce))]

\* A catch clause that passes on what it caught.
getAccountsCatchRethrow(call, error) ==
    Throw([call EXCEPT !.caught = error], error)

\* catch (error) { throw new Error(...) }, lines 158-160
getAccountsCatch(call, error) ==
    Throw([call EXCEPT !.caught = error], AccountsError)

\* getAccounts after getAuthHeaders settled: lines 149-155.
\* settled.data is the token generateJWT returned.
getAccountsHeaders(call, settled) ==
    IF settled.kind = "ok"
    THEN LET baseURL == IF USE_PROXY THEN PROXY_BASE_URL ELSE API_BASE_URL
             url     == baseURL \o "/v1/accounts"
         IN  AwaitGet([call EXCEPT !.awaited = settled],
                      [method |-> "GET", url |-> url, params |-> NoParams,
                       headers |-> AuthHeaders(settled.data)])
    ELSE getAccountsCatch([call EXCEPT !.awaited = settled], settled.error)

\* getAccounts after axios.get settled: lines 157-160
getAccountsResume(call, settled) ==
    IF settled.kind = "ok" THEN Return(call, settled.data)
    ELSE getAccountsCatch(call, settled.error)

-----------------------------------------------------------------------------
(* The state machine of the API client *)

EnvValues ==
    [ACCESS_KEY : {Undefined, "", "access-key"},
     SECRET_KEY : {Undefined, "", "secret-key"},
     DEV        : BOOLEAN]

NoCandles == <<>>

ChartIdle ==
    /\ candles = NoCandles
    /\ chart = <<>>
    /\ chartOp = "none"

UiIdle ==
    /\ selectedCoin = Null
    /\ selectedHistoricalData = Null
    /\ isModalOpen = FALSE
    /\ timers = <<>>

Init ==
    /\ env \in EnvValues
    /\ calls = <<>>
    /\ issuedNonces = {}
    /\ ChartIdle
    /\ UiIdle

\* A caller enters an exported function; limit bounds the number of calls.
Enter(limit, call) ==
    /\ Len(calls) < limit
    /\ calls' = Append(calls, call)

CallGetMarkets(limit) ==
    /\ Enter(limit, getMarkets)
    /\ UNCHANGED <<env, issuedNonces, chartVars, uiVars>>

CallGetMinuteCandles(limit, markets, units, counts) ==
    /\ \E market \in markets, unit \in units, count \in counts :
          Enter(limit, getMinuteCandles(market, unit, count))
    /\ UNCHANGED <<env, issuedNonces, chartVars, uiVars>>

CallGetDayCandles(limit, markets, counts, convertingPriceUnits) ==
    /\ \E market \in markets, count \in counts, cpu \in convertingPriceUnits :
          Enter(limit, getDayCandles(market, count, cpu))
    /\ UNCHANGED <<env, issuedNonces, chartVars, uiVars>>

CallGetTicker(limit, lists) ==
    /\ \E markets \in lists : Enter(limit, getTicker(markets))
    /\ UNCHANGED <<env, issuedNonces, chartVars, uiVars>>

\* uuidv4() is evaluated only on the path that builds the payload.
CallGetAccounts(limit) ==
    /\ \E nonce \in uuidv4 :
          /\ Enter(limit, getAccounts(nonce))
          /\ issuedNonces' = IF calls'[Len(calls')].payload = NoPayload
                             THEN issuedNonces
                             ELSE issuedNonces \cup {nonce}
    /\ UNCHANGED <<env, chartVars, uiVars>>

\* The continuation of call i after the promise it awaits has settled.
Resume(call, settled) ==
    CASE call.op = "getMarkets"       -> getMarketsResume(call, settled)
      [] call.op = "getMinuteCandles" -> getMinuteCandlesResume(call, settled)
      [] call.op = "getDayCandles"    -> getDayCandlesResume(call, settled)
      [] call.op = "getTicker"        -> getTickerResume(call, settled)
      [] call.op = "getAccounts"      -> getAccountsResume(call, settled)

Settle(i, settled) ==
    /\ calls[i].pc = "awaitGet"
    /\ calls' = [calls EXCEPT ![i] = Resume([@ EXCEPT !.response = settled], settled)]
    /\ UNCHANGED <<env, issuedNonces, chartVars, uiVars>>

\* axios resolves the pending GET of call i with a response body.
TransportResponds ==
    \E i \in 1..Len(calls), data \in ResponseData : Settle(i, Resolved(data))

\* axios rejects the pending GET of call i (network failure, non-2xx status).
TransportFails ==
    \E i \in 1..Len(calls), error \in TransportErrors : Settle(i, Rejected(error))

\* The promise of getAuthHeaders was rejected on entry: the await throws.
HeadersRejected ==
    /\ \E i \in 1..Len(calls) :
          /\ calls[i].pc = "awaitHeaders"
          /\ calls[i].awaited.kind = "error"
          /\ calls' = [calls EXCEPT ![i] = getAccountsHeaders(@, @.awaited)]
    /\ UNCHANGED <<env, issuedNonces, chartVars, uiVars>>

\* jose has signed: generateJWT returns the token, getAuthHeaders the headers.
SignResolves ==
    /\ \E i \in 1..Len(calls) :
          /\ calls[i].pc = "awaitHeaders"
          /\ calls[i].awaited.kind = "pending"
          /\ calls' = [calls EXCEPT ![i] =
                 getAccountsHeaders(@, Resolved(SignJWT(@.payload, SECRET_KEY)))]
    /\ UNCHANGED <<env, issuedNonces, chartVars, uiVars>>

\* jose fails to sign: the rejection passes through generateJWT and getAuthHeaders.
SignRejects ==
    /\ \E i \in 1..Len(calls) :
          /\ calls[i].pc = "awaitHeaders"
          /\ calls[i].awaited.kind = "pending"
          /\ calls' = [calls EXCEPT ![i] = getAccountsHeaders(@, Rejected(SignError))]
    /\ UNCHANGED <<env, issuedNonces, chartVars, uiVars>>

Answers ==
    \/ TransportResponds
    \/ TransportFails
    \/ HeadersRejected
    \/ SignResolves
    \/ SignRejects

\* Up to MaxCalls calls in flight together, each with few argument values.
SomeMarket == CHOOSE m \in Markets : TRUE

FewLists == { <<SomeMarket>> } \cup { l \in [1..2 -> Markets] : l[1] = SomeMarket /\ l[2] # SomeMarket }

Next ==
    \/ CallGetMarkets(MaxCalls)
    \/ CallGetMinuteCandles(MaxCalls, {SomeMarket}, {<<>>}, {<<>>})
    \/ CallGetDayCandles(MaxCalls, {SomeMarket}, {<<>>}, ConvertingPriceUnitArgs)
    \/ CallGetTicker(MaxCalls, FewLists)
    \/ CallGetAccounts(MaxCalls)
    \/ Answers

Spec == Init /\ [][Next]_vars

\* Up to MaxArgCalls calls, with every argument value of the model.
NextArgs ==
    \/ CallGetMarkets(MaxArgCalls)
    \/ CallGetMinuteCandles(MaxArgCalls, Markets, UnitArgs, CountArgs)
    \/ CallGetDayCandles(MaxArgCalls, Markets, CountArgs, ConvertingPriceUnitArgs)
    \/ CallGetTicker(MaxArgCalls, MarketLists)
    \/ CallGetAccounts(MaxArgCalls)
    \/ Answers

SpecArgs == Init /\ [][NextArgs]_vars

-----------------------------------------------------------------------------
(* Chart conversion (pure functions of upbitApi.ts) *)

Times == { "2024-01-01T09:00:00", "2024-01-01T09:01:00" }

Prices == { 1, 2 }

Volumes == { 5, 6 }

\* The candles the exchange returns: low <= open, close <= high.
CandleValues ==
    { c \in [candle_date_time_utc     : { "2024-01-01T00:00:00" },
             candle_date_time_kst     : Times,
             opening_price            : Prices,
             high_price               : Prices,
             low_price                : Prices,
             trade_price              : Prices,
             candle_acc_trade_price   : { 9 },
             candle_acc_trade_volume  : Volumes] :
        /\ c.low_price <= c.opening_price /\ c.low_price <= c.trade_price
        /\ c.opening_price <= c.high_price /\ c.trade_price <= c.high_price }

CandleLists == UNION { [1..n -> CandleValues] : n \in 0..MaxCandles }

\* the arrow function of lines 171-178
MinuteCandleToChartPoint(candle) ==
    [time   |-> candle.candle_date_time_kst,
     open   |-> candle.opening_price,
     high   |-> candle.high_price,
     low    |-> candle.low_price,
     close  |-> candle.trade_price,
     volume |-> candle.candle_acc_trade_volume]

\* convertMinuteCandleToChartData, lines 168-179: candles.map(...)
convertMinuteCandleToChartData(cs) ==
    [i \in 1..Len(cs) |-> MinuteCandleToChartPoint(cs[i])]

\* A conversion that takes the UTC time of the candle.
DayCandleToChartPointUtc(candle) ==
    [time   |-> candle.candle_date_time_utc,
     open   |-> candle.opening_price,
     high   |-> candle.high_price,
     low    |-> candle.low_price,
     close  |-> candle.trade_price,
     volume |-> candle.candle_acc_trade_volume]

\* the arrow function of lines 187-194
DayCandleToChartPoint(candle) ==
    [time   |-> candle.candle_date_time_kst,
     open   |-> candle.opening_price,
     high   |-> candle.high_price,
     low    |-> candle.low_price,
     close  |-> candle.trade_price,
     volume |-> candle.candle_acc_trade_volume]

\* convertDayCandleToChartData, lines 184-195: candles.map(...)
convertDayCandleToChartData(cs) ==
    [i \in 1..Len(cs) |-> DayCandleToChartPoint(cs[i])]

ApiIdle ==
    /\ env = [ACCESS_KEY |-> Undefined, SECRET_KEY |-> Undefined, DEV |-> FALSE]
    /\ calls = <<>>
    /\ issuedNonces = {}

InitChart ==
    /\ candles \in CandleLists
    /\ chart = <<>>
    /\ chartOp = "none"
    /\ ApiIdle
    /\ UiIdle

ConvertMinute ==
    /\ chartOp = "none"
    /\ chart' = convertMinuteCandleToChartData(candles)
    /\ chartOp' = "minute"
    /\ UNCHANGED <<candles, apiVars, uiVars>>

ConvertDay ==
    /\ chartOp = "none"
    /\ chart' = convertDayCandleToChartData(candles)
    /\ chartOp' = "day"
    /\ UNCHANGED <<candles, apiVars, uiVars>>

NextChart ==
    \/ ConvertMinute
    \/ ConvertDay

SpecChart == InitChart /\ [][NextChart]_vars

-----------------------------------------------------------------------------
(* CoinsSection *)

\* MOCK_COINS: the four coins of the 2x2 grid.
MOCK_COINS == { "coin1", "coin2", "coin3", "coin4" }

\* HISTORICAL_DATA[coin.id]
HISTORICAL_DATA(coin) == "history-" \o coin

\* the delay handed to setTimeout
ResetDelayMs == 300

InitUI ==
    /\ UiIdle
    /\ ApiIdle
    /\ ChartIdle

\* handleCoinClick, lines 23-28
handleCoinClick(coin) ==
    LET historicalData == HISTORICAL_DATA(coin)
    IN  /\ selectedCoin' = coin
        /\ selectedHistoricalData' = historicalData
        /\ isModalOpen' = TRUE
        /\ UNCHANGED timers

\* handleCloseModal, lines 30-37: the timer is scheduled and never cleared.
handleCloseModal ==
    /\ Len(timers) < MaxTimers
    /\ isModalOpen' = FALSE
    /\ timers' = Append(timers, ResetDelayMs)
    /\ UNCHANGED <<selectedCoin, selectedHistoricalData>>

\* the callback handed to setTimeout, lines 33-36
ResetTimerFires ==
    /\ timers # <<>>
    /\ Head(timers) = 0
    /\ selectedCoin' = Null
    /\ selectedHistoricalData' = Null
    /\ timers' = Tail(timers)
    /\ UNCHANGED isModalOpen

\* Time passes; a timer that is due runs before more time passes.
Tick ==
    /\ timers # <<>>
    /\ \A i \in 1..Len(timers) : timers[i] > 0
    /\ timers' = [i \in 1..Len(timers) |->
                    IF timers[i] > TickMs THEN timers[i] - TickMs ELSE 0]
    /\ UNCHANGED <<selectedCoin, selectedHistoricalData, isModalOpen>>

\* A coin card is clicked; the open modal covers the grid.
CoinClicked ==
    /\ ~isModalOpen
    /\ \E coin \in MOCK_COINS : handleCoinClick(coin)
    /\ UNCHANGED <<apiVars, chartVars>>

\* The modal calls onClose; a closed modal offers no way to close it.
ModalClosed ==
    /\ isModalOpen
    /\ handleCloseModal
    /\ UNCHANGED <<apiVars, chartVars>>

TimerFired ==
    /\ ResetTimerFires
    /\ UNCHANGED <<apiVars, chartVars>>

TimePasses ==
    /\ Tick
    /\ UNCHANGED <<apiVars, chartVars>>

NextUI ==
    \/ CoinClicked
    \/ ModalClosed
    \/ TimerFired
    \/ TimePasses

SpecUI == InitUI /\ [][NextUI]_vars

-----------------------------------------------------------------------------
(* Properties *)

CallIds == 1..Len(calls)

PublicOps == { "getMarkets", "getMinuteCandles", "getDayCandles", "getTicker" }

IsPublic(i) == calls[i].op \in PublicOps

IsAccounts(i) == calls[i].op = "getAccounts"

Done(i) == calls[i].pc = "done"

Failed(i) == Done(i) /\ calls[i].outcome.kind = "error"

Succeeded(i) == Done(i) /\ calls[i].outcome.kind = "ok"

KeyAbsent(key) == key = Undefined \/ key = ""

CredentialsAbsent == KeyAbsent(env.ACCESS_KEY) \/ KeyAbsent(env.SECRET_KEY)

\* The bearer token and the nonce carried by the request of a getAccounts call.
TokenOf(i) == calls[i].requests[1].headers.Authorization[2]

NonceOf(i) == TokenOf(i).payload.nonce

Sent(i) == calls[i].requests # <<>>

\* C1: when the access key or the secret key is not configured, a getAccounts
\* call hands no request to the transport, never succeeds, and ends with the
\* generic accounts error.
C1_NoRequestWithoutCredentials ==
    \A i \in CallIds :
        (IsAccounts(i) /\ CredentialsAbsent) =>
            /\ calls[i].requests = <<>>
            /\ calls[i].outcome.kind # "ok"
            /\ Done(i) => calls[i].outcome = Rejected(AccountsError)

C1_Witness ==
    \E i \in CallIds :
        /\ IsAccounts(i)
        /\ KeyAbsent(env.ACCESS_KEY)
        /\ ~KeyAbsent(env.SECRET_KEY)
        /\ calls[i].outcome = Rejected(AccountsError)

\* C2: every failed getAccounts call went through the catch clause and raises
\* one and the same error, whatever was caught: two failed calls cannot be
\* told apart, and the raised error carries nothing of the caught one.
C2_FailuresIndistinguishable ==
    /\ \A i \in CallIds :
          (IsAccounts(i) /\ Failed(i)) =>
              /\ calls[i].caught # NoError
              /\ calls[i].outcome.error # calls[i].caught
              /\ calls[i].outcome.error.message # calls[i].caught.message
              /\ DOMAIN calls[i].outcome.error = { "name", "message" }
    /\ \A i, j \in CallIds :
          (IsAccounts(i) /\ IsAccounts(j) /\ Failed(i) /\ Failed(j)) =>
              calls[i].outcome = calls[j].outcome

C2_Witness ==
    \E i, j \in CallIds :
        /\ IsAccounts(i) /\ IsAccounts(j)
        /\ Failed(i) /\ Failed(j)
        /\ calls[i].caught = SignError
        /\ calls[j].caught \in TransportErrors

\* C3: every getAccounts request carries the token signed from the call's own
\* payload, and no two requests carry the same nonce or the same token.
C3_FreshNoncePerRequest ==
    /\ \A i \in CallIds :
          (IsAccounts(i) /\ Sent(i)) =>
              /\ TokenOf(i).payload = calls[i].payload
              /\ NonceOf(i) \in issuedNonces
    /\ \A i, j \in CallIds :
          (IsAccounts(i) /\ IsAccounts(j) /\ Sent(i) /\ Sent(j) /\ i # j) =>
              /\ NonceOf(i) # NonceOf(j)
              /\ TokenOf(i) # TokenOf(j)

C3_Witness ==
    \E i, j \in CallIds :
        /\ i # j
        /\ IsAccounts(i) /\ IsAccounts(j)
        /\ Sent(i) /\ Sent(j)
        /\ Done(i) /\ ~Done(j)

\* Where the i-th element starts in the comma-joined string (0-based).
RECURSIVE OffsetOf(_, _)
OffsetOf(list, i) ==
    IF i = 1 THEN 0 ELSE OffsetOf(list, i - 1) + Len(list[i - 1]) + 1

\* out is the elements of list, in order, with one comma between neighbours.
IsCommaJoined(out, list) ==
    LET n == Len(list)
    IN  /\ Len(out) = IF n = 0 THEN 0 ELSE OffsetOf(list, n) + Len(list[n])
        /\ \A i \in 1..n :
              /\ SubSeq(out, OffsetOf(list, i) + 1, OffsetOf(list, i) + Len(list[i]))
                    = list[i]
              /\ i < n => out[OffsetOf(list, i) + Len(list[i]) + 1] = ","

\* C4: a getTicker call issues exactly one GET, to /v1/ticker, whose only
\* query parameter is markets, the codes joined by commas in the order given.
C4_TickerOneJoinedRequest ==
    \A i \in CallIds :
        calls[i].op = "getTicker" =>
            /\ Len(calls[i].requests) = 1
            /\ calls[i].requests[1].method = "GET"
            /\ calls[i].requests[1].url \in
                  { API_BASE_URL \o "/v1/ticker", PROXY_BASE_URL \o "/v1/ticker" }
            /\ DOMAIN calls[i].requests[1].params = { "markets" }
            /\ IsCommaJoined(calls[i].requests[1].params.markets, calls[i].args.markets)

C4_Witness ==
    \E i \in CallIds :
        /\ calls[i].op = "getTicker"
        /\ Len(calls[i].args.markets) = 2
        /\ calls[i].args.markets[1] # calls[i].args.markets[2]
        /\ calls[i].requests[1].params.markets = <<"B", "T", "C", ",", "X", "R">>
        /\ Done(i)

\* C5: a public operation never waits on the credential check, its request
\* carries no Authorization header, and it fails only with an error of the
\* transport, with or without credentials.
C5_PublicIgnoresCredentials ==
    \A i \in CallIds :
        IsPublic(i) =>
            /\ calls[i].pc \in { "awaitGet", "done" }
            /\ calls[i].payload = NoPayload
            /\ Len(calls[i].requests) = 1
            /\ DOMAIN calls[i].requests[1].headers = { "Accept" }
            /\ Failed(i) => calls[i].outcome.error \in TransportErrors
            /\ Done(i) => calls[i].outcome.kind = calls[i].response.kind

C5_Witness ==
    /\ CredentialsAbsent
    /\ \E i \in CallIds : IsPublic(i) /\ Succeeded(i)

\* C6: when the transport fails during a public operation, the caller gets
\* exactly the transport's error and no result value.
C6_TransportErrorVerbatim ==
    \A i \in CallIds :
        (IsPublic(i) /\ calls[i].response.kind = "error") =>
            /\ Done(i)
            /\ calls[i].outcome = Rejected(calls[i].response.error)
            /\ calls[i].outcome.data = NoData

C6_Witness ==
    \E i \in CallIds :
        /\ calls[i].op = "getTicker"
        /\ calls[i].response.kind = "error"
        /\ calls[i].caught \in TransportErrors
        /\ Failed(i)

\* C7: every call issues at most one request; once the transport has
\* answered, the call is over, with an error after a failure and with the
\* result after a success, and one request is all it has issued.
C7_OneRequestNoRetry ==
    \A i \in CallIds :
        /\ Len(calls[i].requests) <= 1
        /\ calls[i].response.kind = "error" =>
              Failed(i) /\ Len(calls[i].requests) = 1
        /\ calls[i].response.kind = "ok" =>
              Succeeded(i) /\ Len(calls[i].requests) = 1
        /\ Done(i) => calls[i].outcome.kind # "pending"

C7_Witness ==
    \E i, j \in CallIds :
        /\ calls[i].op = "getMinuteCandles"
        /\ calls[i].response.kind = "error"
        /\ Failed(i)
        /\ IsAccounts(j)
        /\ calls[j].response.kind = "error"
        /\ Failed(j)

\* C8: the chart conversion returns one point per candle, in order, and the
\* i-th point is made of the i-th candle's KST time, opening, high, low and
\* trade price and accumulated trade volume.
C8_ChartDataPointwise ==
    chartOp # "none" =>
        /\ Len(chart) = Len(candles)
        /\ \A i \in 1..Len(candles) :
              /\ DOMAIN chart[i] = { "time", "open", "high", "low", "close", "volume" }
              /\ chart[i].time = candles[i].candle_date_time_kst
              /\ chart[i].open = candles[i].opening_price
              /\ chart[i].high = candles[i].high_price
              /\ chart[i].low = candles[i].low_price
              /\ chart[i].close = candles[i].trade_price
              /\ chart[i].volume = candles[i].candle_acc_trade_volume

C8_Witness ==
    /\ chartOp = "day"
    /\ Len(candles) = 2
    /\ candles[1].trade_price # candles[2].trade_price
    /\ candles[1].opening_price # candles[1].trade_price
    /\ candles[2].low_price # candles[2].high_price
    /\ Len(chart) = 2

\* C9: what a call sends and returns is its own: calls of the same operation
\* with the same arguments send the same request whatever ran before, and a
\* call's result is the answer to its own request.
C9_NoCrossCallState ==
    /\ \A i \in CallIds :
          /\ Succeeded(i) => calls[i].outcome.data = calls[i].response.data
          /\ Done(i) /\ Sent(i) => calls[i].outcome.kind = calls[i].response.kind
          /\ ~Sent(i) => calls[i].response = Pending
    /\ \A i, j \in CallIds :
          (IsPublic(i) /\ calls[i].op = calls[j].op /\ calls[i].args = calls[j].args) =>
              calls[i].requests = calls[j].requests

C9_Witness ==
    \E i, j \in CallIds :
        /\ i < j
        /\ calls[i].op = "getMarkets" /\ calls[j].op = "getMarkets"
        /\ Succeeded(i) /\ Succeeded(j)
        /\ calls[i].outcome.data # calls[j].outcome.data

\* C10: whenever the modal is open, a coin is selected.
C10_OpenModalHasCoin ==
    isModalOpen => (selectedCoin # Null /\ selectedHistoricalData # Null)

=============================================================================
